---- MODULE Spec2Model ----
(***************************************************************************)
(* The App component of src/src/components/App.jsx: a post list filtered  *)
(* by author and shown page by page.  Its state is the two useState cells  *)
(* selectedAuthor and currentPage; everything else (filteredPosts,         *)
(* pageCount, offset, currentPagePosts, authorOptions) is recomputed from  *)
(* them and from the imported post collection on every render.             *)
(***************************************************************************)
EXTENDS Integers, Sequences, FiniteSets, TLC

\* ---------------------------------------------------------------- bounds
\* Longest post collection explored.
MaxPosts == 7
\* Largest page index handed to handlePageChange when the caller is not the
\* pagination widget (it exceeds every pageCount the collections above give).
MaxPageIndex == 4

\* ------------------------------------------------------------- constants
\* const POSTS_PER_PAGE = 3;
POSTS_PER_PAGE == 3

\* useState(null): the selection before any choice, and what the Select
\* widget hands to onChange when the selection is cleared.
NULL == [null |-> TRUE]

\* { value: "", label: "Show All" }
ShowAllOption == [value |-> "", label |-> "Show All"]

\* The author names of the imported data (../mock/data.json is not part of
\* the sources; a name is a non-empty string).
AuthorNames == {"Alice", "Bob"}

\* An option object that is not among authorOptions (a caller other than the
\* Select widget could pass it to handleAuthorChange).
StrangerOption == [value |-> "Carol", label |-> "Carol"]

\* postData.posts: every sequence of at most MaxPosts posts.  A post carries
\* its id (its position: ids are unique) and its author's name; the other
\* fields of a post are only displayed.
PostCollections ==
  UNION { { [i \in 1..n |-> [id |-> i, author |-> [name |-> f[i]]]] :
              f \in [1..n -> AuthorNames] } : n \in 0..MaxPosts }

VARIABLES
  posts,           \* postData.posts (never assigned after the import)
  selectedAuthor,  \* useState(null): NULL or an option {value, label}
  currentPage,     \* useState(0)
  event,           \* the last event a handler received, and the page it found
  twin             \* a second instance of the component (its two state cells)

vars == <<posts, selectedAuthor, currentPage, event, twin>>

\* ------------------------------------------------- the render computation
\* postData.posts.map((post) => post.author.name)
authorNamesOf(P) == [i \in 1..Len(P) |-> P[i].author.name]

\* Array.from(new Set(names)): a Set keeps each value once, in insertion order.
RECURSIVE ArrayFromNewSet(_)
ArrayFromNewSet(names) ==
  IF names = <<>> THEN <<>>
  ELSE LET front == ArrayFromNewSet(SubSeq(names, 1, Len(names) - 1))
           last  == names[Len(names)]
       IN  IF \E i \in 1..Len(front) : front[i] = last
           THEN front
           ELSE Append(front, last)

\* Variant: the names without the Set (duplicates kept).
uniqueAuthorsNoSet(P) == authorNamesOf(P)

uniqueAuthors(P) == ArrayFromNewSet(authorNamesOf(P))

authorOptions(P) ==
  <<ShowAllOption>> \o
  [i \in 1..Len(uniqueAuthors(P)) |->
     [value |-> uniqueAuthors(P)[i], label |-> uniqueAuthors(P)[i]]]

\* Variant: a test for null only (selectedAuthor ? ... : ...).
hasAuthorValueNullOnly(sel) == sel # NULL

\* selectedAuthor?.value used as a condition: null gives undefined, and
\* undefined and "" are both falsy.
hasAuthorValue(sel) == sel # NULL /\ sel.value # ""

\* Variant: a filter that loses the last matching post.
filterDropsLast(P, sel) ==
  LET G == SelectSeq(P, LAMBDA post : post.author.name = sel.value)
  IN  IF G = <<>> THEN G ELSE SubSeq(G, 1, Len(G) - 1)

\* postData.posts.filter((post) => post.author.name === selectedAuthor.value)

filterByAuthor(P, sel) ==
  SelectSeq(P, LAMBDA post : post.author.name = sel.value)

filteredPosts(P, sel) ==
  IF hasAuthorValue(sel) THEN filterByAuthor(P, sel) ELSE P

\* Variant: Math.floor in place of Math.ceil.
MathFloorDiv(n, d) == n \div d

\* Variant: Math.floor(n / d) + 1 in place of Math.ceil.
MathFloorDivPlusOne(n, d) == (n \div d) + 1

\* Math.ceil(n / d) for n >= 0, d > 0.
MathCeilDiv(n, d) == IF n % d = 0 THEN n \div d ELSE (n \div d) + 1

pageCount(F) == MathCeilDiv(Len(F), POSTS_PER_PAGE)

offset(page) == page * POSTS_PER_PAGE

\* Array.prototype.slice(start, end): a negative index counts from the end,
\* both are clamped to [0, length], and an empty range gives [].
sliceIndex(k, len) ==
  IF k < 0 THEN (IF len + k < 0 THEN 0 ELSE len + k)
  ELSE (IF k > len THEN len ELSE k)

slice(F, start, end) ==
  LET from == sliceIndex(start, Len(F))
      to   == sliceIndex(end, Len(F))
  IN  IF from >= to THEN <<>> ELSE SubSeq(F, from + 1, to)

currentPagePosts(F, page) ==
  slice(F, offset(page), offset(page) + POSTS_PER_PAGE)

\* Variant: >= in place of >.
showPaginationAtLeast(F) == Len(F) >= POSTS_PER_PAGE

\* filteredPosts.length > POSTS_PER_PAGE ? <ReactPaginate .../> : null
showPagination(F) == Len(F) > POSTS_PER_PAGE

\* currentPagePosts.length > 0 ? <section/> : <p>No books found ...</p>
noBooksFound(F, page) == ~(Len(currentPagePosts(F, page)) > 0)

\* ------------------------------------------------------------ the handlers
\* Variant: the handler without its setCurrentPage(0).
handleAuthorChangeKeepsPage(selectedOption) ==
  [selectedAuthor |-> selectedOption, currentPage |-> currentPage]

\* setSelectedAuthor(selectedOption); setCurrentPage(0): the component's two
\* state cells after the handler ran, as a record.
handleAuthorChange(selectedOption) ==
  [selectedAuthor |-> selectedOption, currentPage |-> 0]

\* Variant: a handler that clamps the index to the last page.
handlePageChangeClamped(sel, selectedPage) ==
  LET last == pageCount(filteredPosts(posts, sel)) - 1
  IN  [selectedAuthor |-> sel,
       currentPage |-> IF selectedPage.selected > last /\ last >= 0
                       THEN last ELSE selectedPage.selected]

\* setCurrentPage(selectedPage.selected); the other cell, sel, stays as it is.
handlePageChange(sel, selectedPage) ==
  [selectedAuthor |-> sel, currentPage |-> selectedPage.selected]

\* ------------------------------------------------------------- the state
\* useState(null), useState(0)
InitialState == [selectedAuthor |-> NULL, currentPage |-> 0]

NoEvent ==
  [type |-> "none", selectedOption |-> NULL, selected |-> 0, prevPage |-> 0]

AuthorEvent(opt) ==
  [type |-> "authorChange", selectedOption |-> opt, selected |-> 0,
   prevPage |-> currentPage]

PageEvent(i) ==
  [type |-> "pageChange", selectedOption |-> NULL, selected |-> i,
   prevPage |-> currentPage]

Init ==
  /\ posts \in PostCollections
  /\ selectedAuthor = InitialState.selectedAuthor
  /\ currentPage = InitialState.currentPage
  /\ event = NoEvent
  /\ twin = InitialState

\* What this render computes from the two cells.
F == filteredPosts(posts, selectedAuthor)

\* The options the Select widget offers: options={authorOptions}.
OfferedOptions == { authorOptions(posts)[i] : i \in 1..Len(authorOptions(posts)) }

\* The two cells take the values a handler left; the collection stays.
Apply(next, ev) ==
  /\ selectedAuthor' = next.selectedAuthor
  /\ currentPage' = next.currentPage
  /\ event' = ev
  /\ UNCHANGED posts

\* ------------------------------------------- the component as it is rendered
\* <Select onChange={handleAuthorChange} options={authorOptions} isClearable/>
SelectOption(opt) ==
  /\ opt \in OfferedOptions
  /\ Apply(handleAuthorChange(opt), AuthorEvent(opt))
  /\ UNCHANGED twin

\* isClearable: the widget calls onChange(null).
ClearSelection ==
  /\ Apply(handleAuthorChange(NULL), AuthorEvent(NULL))
  /\ UNCHANGED twin

\* <ReactPaginate pageCount={pageCount} onPageChange={handlePageChange}/>,
\* rendered only when filteredPosts.length > POSTS_PER_PAGE; it offers the
\* pages 0 .. pageCount-1.
PaginateClick(i) ==
  /\ showPagination(F)
  /\ i \in 0..(pageCount(F) - 1)
  /\ Apply(handlePageChange(selectedAuthor, [selected |-> i]), PageEvent(i))
  /\ UNCHANGED twin

Next ==
  \/ \E opt \in OfferedOptions : SelectOption(opt)
  \/ ClearSelection
  \/ \E i \in 0..MaxPageIndex : PaginateClick(i)

Spec == Init /\ [][Next]_vars

\* ------------------- the handlers driven by events that are merely in range
\* A page-change event with an index in [0, pageCount), whether or not the
\* pagination widget is on screen.
PageChangeInRange(i) ==
  /\ i \in 0..(pageCount(F) - 1)
  /\ Apply(handlePageChange(selectedAuthor, [selected |-> i]), PageEvent(i))
  /\ UNCHANGED twin

NextInRange ==
  \/ \E opt \in OfferedOptions : SelectOption(opt)
  \/ ClearSelection
  \/ \E i \in 0..MaxPageIndex : PageChangeInRange(i)

SpecInRange == Init /\ [][NextInRange]_vars

\* ----------------------------- the handlers called with arbitrary arguments
AuthorChangeAny(opt) ==
  /\ Apply(handleAuthorChange(opt), AuthorEvent(opt))
  /\ UNCHANGED twin

PageChangeAny(i) ==
  /\ Apply(handlePageChange(selectedAuthor, [selected |-> i]), PageEvent(i))
  /\ UNCHANGED twin

NextAny ==
  \/ \E opt \in OfferedOptions \cup {NULL, StrangerOption} : AuthorChangeAny(opt)
  \/ \E i \in 0..MaxPageIndex : PageChangeAny(i)

SpecAny == Init /\ [][NextAny]_vars

\* ------------------------------ two instances of the component side by side
\* Both instances receive the same event ...
TwinSelectOption(opt) ==
  /\ opt \in OfferedOptions \cup {NULL}
  /\ Apply(handleAuthorChange(opt), AuthorEvent(opt))
  /\ twin' = handleAuthorChange(opt)

\* ... except that where one is given the Show All option the other may be
\* given the cleared signal.
TwinShowAllVersusCleared ==
  /\ Apply(handleAuthorChange(ShowAllOption), AuthorEvent(ShowAllOption))
  /\ twin' = handleAuthorChange(NULL)

TwinPaginateClick(i) ==
  /\ showPagination(F)
  /\ i \in 0..(pageCount(F) - 1)
  /\ Apply(handlePageChange(selectedAuthor, [selected |-> i]), PageEvent(i))
  /\ twin' = handlePageChange(twin.selectedAuthor, [selected |-> i])

NextTwin ==
  \/ \E opt \in OfferedOptions \cup {NULL} : TwinSelectOption(opt)
  \/ TwinShowAllVersusCleared
  \/ \E i \in 0..MaxPageIndex : TwinPaginateClick(i)

SpecTwin == Init /\ [][NextTwin]_vars

\* ================================================================ claims
\* The page p of a filtered set, as the render computes it for currentPage = p.
Page(G, p) == currentPagePosts(G, p)

RECURSIVE ConcatPages(_, _)
ConcatPages(G, n) ==
  IF n = 0 THEN <<>> ELSE ConcatPages(G, n - 1) \o Page(G, n - 1)

RECURSIVE SumPageLengths(_, _)
SumPageLengths(G, n) ==
  IF n = 0 THEN 0 ELSE SumPageLengths(G, n - 1) + Len(Page(G, n - 1))

\* The position at which a name first appears in a collection.
FirstIndex(P, name) ==
  CHOOSE i \in 1..Len(P) :
    /\ P[i].author.name = name
    /\ \A j \in 1..(i - 1) : P[j].author.name # name

\* C1: under events that are in range (options from authorOptions or the
\* cleared signal, page indices in [0, pageCount)), every reachable state has
\* pageCount = 0 or currentPage < pageCount.
C1_CurrentPageInRange ==
  pageCount(F) = 0 \/ currentPage < pageCount(F)

\* C1 witness: the filter was switched while on a later page and the new
\* filter has a single page.
C1_Witness ==
  /\ event.type = "authorChange"
  /\ event.prevPage >= 1
  /\ hasAuthorValue(selectedAuthor)
  /\ pageCount(F) = 1
  /\ currentPage = 0

\* C2: after handleAuthorChange(newSelection), for any newSelection and from
\* any page, currentPage = 0 and selectedAuthor = newSelection.
C2_AuthorChangeResetsPage ==
  [][event'.type = "authorChange" =>
       /\ currentPage' = 0
       /\ selectedAuthor' = event'.selectedOption]_vars

\* C2 witness: an author change that found the view on a page other than 0,
\* even one beyond the last page.
C2_Witness ==
  /\ event.type = "authorChange"
  /\ event.prevPage = MaxPageIndex
  /\ selectedAuthor = event.selectedOption
  /\ selectedAuthor # NULL
  /\ currentPage = 0

\* C3: with no filter, filteredPosts is the collection itself; with an author
\* name A it is the subsequence of the posts whose author.name is A: only
\* such posts, all of them, in the collection's order.
C3_FilterIsSubsequence ==
  /\ ~hasAuthorValue(selectedAuthor) => F = posts
  /\ hasAuthorValue(selectedAuthor) =>
       /\ \A i \in 1..Len(F) :
            /\ F[i].author.name = selectedAuthor.value
            /\ F[i].id \in 1..Len(posts)
            /\ posts[F[i].id] = F[i]
       /\ \A i \in 1..(Len(F) - 1) : F[i].id < F[i + 1].id
       /\ \A j \in 1..Len(posts) :
            posts[j].author.name = selectedAuthor.value =>
              \E i \in 1..Len(F) : F[i] = posts[j]

\* C3 witness: a filter that keeps posts from both sides of a post it drops.
C3_Witness ==
  /\ hasAuthorValue(selectedAuthor)
  /\ Len(F) >= 2
  /\ Len(F) < Len(posts)
  /\ \E i \in 1..(Len(F) - 1) : F[i + 1].id > F[i].id + 1

\* C4: authorOptions has 1 + (number of distinct author names) elements, the
\* first is Show All with value "", no two share a value, and the authors
\* come in the order of their first appearance in the collection.
C4_AuthorOptionsShape ==
  LET opts  == authorOptions(posts)
      names == { posts[i].author.name : i \in 1..Len(posts) }
  IN  /\ Len(opts) = 1 + Cardinality(names)
      /\ opts[1] = ShowAllOption
      /\ opts[1].value = ""
      /\ \A i, j \in 1..Len(opts) : i # j => opts[i].value # opts[j].value
      /\ \A i \in 2..Len(opts) : opts[i].value \in names
      /\ \A i, j \in 2..Len(opts) :
           i < j => FirstIndex(posts, opts[i].value) < FirstIndex(posts, opts[j].value)

\* C4 witness: a collection in which a name recurs after another name was
\* first seen, and whose first author is not the alphabetically first one.
C4_Witness ==
  /\ Len(posts) >= 4
  /\ Len(authorOptions(posts)) = 3
  /\ authorOptions(posts)[2].value = "Bob"
  /\ authorOptions(posts)[3].value = "Alice"
  /\ posts[Len(posts)].author.name = "Bob"

\* C5: the pages 0 .. pageCount-1 concatenate to the filtered set, their
\* lengths sum to its length, and every page but the last has POSTS_PER_PAGE
\* items.
C5_PagesPartitionFiltered ==
  /\ ConcatPages(F, pageCount(F)) = F
  /\ SumPageLengths(F, pageCount(F)) = Len(F)
  /\ \A p \in 0..(pageCount(F) - 2) : Len(Page(F, p)) = POSTS_PER_PAGE
  /\ \A i \in 1..Len(F) :
       \E p \in 0..(pageCount(F) - 1) :
         /\ \E k \in 1..Len(Page(F, p)) : Page(F, p)[k] = F[i]
         /\ \A q \in 0..(pageCount(F) - 1) :
              (\E k \in 1..Len(Page(F, q)) : Page(F, q)[k] = F[i]) => q = p

\* C5 witness: a filtered set of 5 posts, shown as a page of 3 and a page of 2,
\* with the second page on screen.
C5_Witness ==
  /\ hasAuthorValue(selectedAuthor)
  /\ Len(F) = 5
  /\ pageCount(F) = 2
  /\ currentPage = 1
  /\ Len(currentPagePosts(F, currentPage)) = 2

\* C6: pageCount is ceil(len(filteredPosts) / 3): 0 exactly for the empty set
\* and otherwise the least n with 3 * n >= len(filteredPosts).
C6_PageCountIsCeiling ==
  /\ pageCount(F) = 0 <=> F = <<>>
  /\ \A n \in 0..(Len(F) + 1) : (3 * n >= Len(F)) <=> (n >= pageCount(F))
  /\ Len(F) = 7 => pageCount(F) = 3
  /\ Len(F) = 3 => pageCount(F) = 1
  /\ Len(F) = 2 => pageCount(F) = 1

\* C6 witness: 7 posts on 3 pages, the last one on screen.
C6_Witness ==
  /\ Len(F) = 7
  /\ pageCount(F) = 3
  /\ currentPage = 2

\* C7: the pagination control is shown exactly when len(filteredPosts) > 3,
\* that is exactly when pageCount > 1; 3 matching posts give one page and no
\* control; a page-change event is emitted only from a state with at least
\* two pages.
C7_PaginationShownIffSeveralPages ==
  /\ [](/\ showPagination(F) <=> Len(F) > 3
        /\ showPagination(F) <=> pageCount(F) > 1
        /\ Len(F) = 3 => (pageCount(F) = 1 /\ ~showPagination(F)))
  /\ [][event'.type = "pageChange" =>
          (showPagination(F) /\ pageCount(F) >= 2)]_vars

\* C7 witness: an author with exactly 3 posts is selected: one page, no control.
C7_Witness ==
  /\ hasAuthorValue(selectedAuthor)
  /\ event.type = "authorChange"
  /\ Len(F) = 3
  /\ pageCount(F) = 1
  /\ ~showPagination(F)

\* What a render hands to the presentation.
View(sel, page) ==
  [filteredPosts    |-> filteredPosts(posts, sel),
   pageCount        |-> pageCount(filteredPosts(posts, sel)),
   currentPagePosts |-> currentPagePosts(filteredPosts(posts, sel), page),
   showPagination   |-> showPagination(filteredPosts(posts, sel))]

\* C8: an instance given the Show All option and an instance given the cleared
\* signal (which is back in the initial unset state), fed the same events from
\* then on, render the same filteredPosts, pageCount, currentPagePosts and
\* show-pagination flag, and both are unfiltered.
C8_ShowAllEqualsCleared ==
  /\ View(selectedAuthor, currentPage) = View(twin.selectedAuthor, twin.currentPage)
  /\ selectedAuthor \in {NULL, ShowAllOption} => F = posts
  /\ twin.selectedAuthor = NULL =>
       View(selectedAuthor, currentPage) = View(InitialState.selectedAuthor, currentPage)

\* C8 witness: one instance holds Show All, the other the cleared selection,
\* and both have since been sent to a later page.
C8_Witness ==
  /\ selectedAuthor = ShowAllOption
  /\ twin.selectedAuthor = NULL
  /\ event.type = "pageChange"
  /\ currentPage = 2
  /\ twin.currentPage = 2

\* C9: handlePageChange stores any non-negative index unchecked and leaves
\* selectedAuthor (so the filter and pageCount) alone; with the offset at or
\* beyond the end of filteredPosts the page is the empty sequence.
C9_PageChangeUnchecked ==
  [][event'.type = "pageChange" =>
       /\ currentPage' = event'.selected
       /\ selectedAuthor' = selectedAuthor
       /\ F' = F
       /\ pageCount(F') = pageCount(F)
       /\ (offset(currentPage') >= Len(F') =>
             currentPagePosts(F', currentPage') = <<>>)
       /\ (offset(currentPage') < Len(F') =>
             currentPagePosts(F', currentPage') # <<>>)]_vars

\* C9 witness: a page index beyond the last page of a non-empty filtered set.
C9_Witness ==
  /\ event.type = "pageChange"
  /\ Len(F) > 0
  /\ currentPage = event.selected
  /\ currentPage >= pageCount(F)
  /\ offset(currentPage) >= Len(F)
  /\ currentPagePosts(F, currentPage) = <<>>

\* C10: under in-range events a non-empty collection always has a non-empty
\* current page, so "No books found" shows only for the empty collection,
\* where pageCount = 0 and currentPagePosts = [].
C10_NoBooksOnlyWhenEmpty ==
  /\ posts # <<>> => ~noBooksFound(F, currentPage)
  /\ noBooksFound(F, currentPage) <=> posts = <<>>
  /\ posts = <<>> => (pageCount(F) = 0 /\ currentPagePosts(F, currentPage) = <<>>)

\* C10 witness: a filter is active and its last, partial page is on screen.
C10_Witness ==
  /\ posts # <<>>
  /\ hasAuthorValue(selectedAuthor)
  /\ event.type = "pageChange"
  /\ currentPage = pageCount(F) - 1
  /\ currentPage >= 1
  /\ Len(currentPagePosts(F, currentPage)) \in 1..(POSTS_PER_PAGE - 1)

====
